---------------------------- MODULE Spec2Model ----------------------------
(***************************************************************************)
(* A model of the temporal expression engine of utc (src/src/parser.rs):   *)
(* the line sequencer `parse`, the PEG grammar `arithmetic`, the typed     *)
(* add/subtract algebra over Expression, and the offset directive parser.  *)
(*                                                                         *)
(* Text is a sequence of one-character strings.  i64 is modelled with      *)
(* IntBits bits (TLC's own integers are 32 bits wide), so that every       *)
(* checked_* operation of the source overflows at the model's I64_MAX /    *)
(* I64_MIN exactly as the source does at i64::MAX / i64::MIN.  The f64 of  *)
(* the number rule is modelled by exact decimal arithmetic; the inputs the *)
(* specifications draw have at most one fractional digit, 0 or 5, for      *)
(* which binary floating point is exact in this range.                     *)
(*                                                                         *)
(* chrono (not part of the repository) is modelled by its documented       *)
(* behaviour: Duration spans i64 milliseconds and Duration + Duration /    *)
(* Duration - Duration panic on overflow; ymd_opt / and_hms_opt reject     *)
(* values that are not on the proleptic Gregorian calendar.  A panic is a  *)
(* parse result of its own ("panic"), turned into Expression::None by      *)
(* safe_parse_line (catch_unwind).                                         *)
(***************************************************************************)
EXTENDS Integers, Sequences, FiniteSets, TLC

VARIABLES
    input,            \* parse's `input`: the whole document, a sequence of characters
    now,              \* parse's `now`
    overflow_checks,  \* whether the build panics on integer overflow (debug) or wraps (release)
    split,            \* the lines the iterator `input.split('\n')` has still to yield
    records,          \* parse's `records`: one [offset, expression] per line done
    offset,           \* parse's running `offset`, seconds east of UTC
    outcomes,         \* per line done, which arm of parse_line / safe_parse_line produced it
    pc,               \* "loop" inside parse's for loop, "done" after `records` is returned,
                      \* "format" before to_fmt_string is called
    self_duration     \* to_fmt_string's `self`: the Duration it is called on, in milliseconds

vars == <<input, now, overflow_checks, split, records, offset, outcomes, pc, self_duration>>

---------------------------------------------------------------------------
(* Bounds of the model *)

\* Width of the model's i64 (and usize) in bits.
IntBits == 28
\* Longest document, in lines, of the general specification.
MaxLines == 3

---------------------------------------------------------------------------
(* Integers *)

I64_MAX == 2^(IntBits - 1) - 1
I64_MIN == -I64_MAX - 1
USIZE_MAX == 2 * I64_MAX + 1

InI64(n) == n >= I64_MIN /\ n <= I64_MAX

\* Option<i64>
Some(n) == [some |-> TRUE, v |-> n]
NoneOpt == [some |-> FALSE, v |-> 0]

\* Integer division truncating toward zero, as Rust's `/` on i64.
TruncDiv(a, b) == IF a >= 0 THEN a \div b ELSE -((-a) \div b)

\* A variant of checked_add that wraps instead of reporting the overflow
checked_add_wrapping(a, b) ==
    LET m == 2 * I64_MAX + 2
    IN  Some(((a + b - I64_MIN) % m) + I64_MIN)

\* i64::checked_add
checked_add(a, b) == IF InI64(a + b) THEN Some(a + b) ELSE NoneOpt

\* i64::checked_sub
checked_sub(a, b) == IF InI64(a - b) THEN Some(a - b) ELSE NoneOpt

\* i64::checked_mul by a positive factor; the test is made by division so
\* that the product is only formed when it fits.
checked_mul(a, k) ==
    IF a <= I64_MAX \div k /\ a >= -((I64_MAX + 1) \div k)
    THEN Some(a * k) ELSE NoneOpt

---------------------------------------------------------------------------
(* Expression *)

MILLIS_PER_SEC == 1000
SECS_PER_HOUR == 3600

ETimestamp(t) == [type |-> "Timestamp", v |-> t]
EDuration(ms) == [type |-> "Duration", v |-> ms]
EOffset(secs) == [type |-> "Offset", v |-> secs]
ENone == [type |-> "None", v |-> 0]
\* Not a value of Expression: the evaluation unwound with a panic.
Panic == [type |-> "Panic", v |-> 0]

\* chrono::Duration::num_seconds: whole seconds, truncated toward zero.
num_seconds(ms) == TruncDiv(ms, MILLIS_PER_SEC)

\* chrono: Duration + Duration and Duration - Duration, which panic when the
\* result leaves the range of Duration (i64 milliseconds).
Duration_add(l, r) == IF InI64(l + r) THEN EDuration(l + r) ELSE Panic
Duration_sub(l, r) == IF InI64(l - r) THEN EDuration(l - r) ELSE Panic

Expression_timestamp(timestamp) ==
    IF timestamp.some THEN ETimestamp(timestamp.v) ELSE ENone

Expression_milliseconds(milliseconds) ==
    IF milliseconds.some THEN EDuration(milliseconds.v) ELSE ENone

\* A variant of Expression::seconds that saturates the milliseconds
Expression_seconds_saturating(seconds_) ==
    IF ~seconds_.some THEN ENone
    ELSE IF checked_mul(seconds_.v, MILLIS_PER_SEC).some
    THEN EDuration(seconds_.v * MILLIS_PER_SEC)
    ELSE EDuration(IF seconds_.v > 0 THEN I64_MAX ELSE I64_MIN)

Expression_seconds(seconds_) ==
    IF seconds_.some
    THEN Expression_milliseconds(checked_mul(seconds_.v, MILLIS_PER_SEC))
    ELSE ENone

\* A variant of add whose Duration + Timestamp is a Duration and whose
\* Timestamp + Timestamp is a Timestamp
add_swapped(l, r) ==
    CASE l.type = "Duration" /\ r.type = "Duration" -> Duration_add(l.v, r.v)
      [] l.type = "Duration" /\ r.type = "Timestamp" ->
            Expression_seconds(checked_add(r.v, num_seconds(l.v)))
      [] l.type = "Timestamp" /\ r.type = "Duration" ->
            Expression_timestamp(checked_add(l.v, num_seconds(r.v)))
      [] l.type = "Timestamp" /\ r.type = "Timestamp" ->
            Expression_timestamp(checked_add(l.v, r.v))
      [] OTHER -> ENone

\* impl Add<Expression> for Expression
add(l, r) ==
    CASE l.type = "Duration" /\ r.type = "Duration" -> Duration_add(l.v, r.v)
      [] l.type = "Duration" /\ r.type = "Timestamp" ->
            Expression_timestamp(checked_add(r.v, num_seconds(l.v)))
      [] l.type = "Timestamp" /\ r.type = "Duration" ->
            Expression_timestamp(checked_add(l.v, num_seconds(r.v)))
      [] l.type = "Timestamp" /\ r.type = "Timestamp" ->
            Expression_seconds(checked_add(l.v, r.v))
      [] OTHER -> ENone

\* impl Sub<Expression> for Expression
sub(l, r) ==
    CASE l.type = "Duration" /\ r.type = "Duration" -> Duration_sub(l.v, r.v)
      [] l.type = "Duration" /\ r.type = "Timestamp" ->
            Expression_timestamp(checked_sub(num_seconds(l.v), r.v))
      [] l.type = "Timestamp" /\ r.type = "Duration" ->
            Expression_timestamp(checked_sub(l.v, num_seconds(r.v)))
      [] l.type = "Timestamp" /\ r.type = "Timestamp" ->
            Expression_seconds(checked_sub(l.v, r.v))
      [] OTHER -> ENone

---------------------------------------------------------------------------
(* Text *)

Digits == <<"0", "1", "2", "3", "4", "5", "6", "7", "8", "9">>
DigitSet == {Digits[k] : k \in 1..10}
DigitVal(c) == (CHOOSE k \in 1..10 : Digits[k] = c) - 1

\* ['a'..='z' | 'A'..='Z']
Letters ==
    {"a", "b", "c", "d", "e", "f", "g", "h", "i", "j", "k", "l", "m",
     "n", "o", "p", "q", "r", "s", "t", "u", "v", "w", "x", "y", "z",
     "A", "B", "C", "D", "E", "F", "G", "H", "I", "J", "K", "L", "M",
     "N", "O", "P", "Q", "R", "S", "T", "U", "V", "W", "X", "Y", "Z"}

\* char::is_whitespace, on the characters of the model's texts
Whitespace == {" ", "\t", "\r", "\n"}

\* The character at position i of s, or "" at the end of input.
At(s, i) == IF i >= 1 /\ i <= Len(s) THEN s[i] ELSE ""

\* The first position from i on where s does not hold the character c.
RECURSIVE skip_char(_, _, _)
skip_char(s, i, c) == IF At(s, i) = c THEN skip_char(s, i + 1, c) ELSE i

\* The first position from i on where s does not hold a digit.
RECURSIVE skip_digits(_, _)
skip_digits(s, i) == IF At(s, i) \in DigitSet THEN skip_digits(s, i + 1) ELSE i

\* The decimal value of the digits s[i..j], saturating at cap.
RECURSIVE decimal(_, _, _, _, _)
decimal(s, i, j, acc, cap) ==
    IF i > j THEN acc
    ELSE IF acc > cap \div 10 THEN cap
    ELSE LET v == acc * 10 + DigitVal(s[i])
         IN  decimal(s, i + 1, j, IF v > cap THEN cap ELSE v, cap)

RECURSIVE pow10(_)
pow10(k) == IF k = 0 THEN 1 ELSE 10 * pow10(k - 1)

---------------------------------------------------------------------------
(* Results of a grammar rule: matched up to pos with a value, no match, or *)
(* a panic raised by an action while matching.                             *)

Matched(pos, val) == [st |-> "ok", pos |-> pos, val |-> val]
Failed == [st |-> "fail", pos |-> 0, val |-> ENone]
Panicked == [st |-> "panic", pos |-> 0, val |-> ENone]

\* State::new
State_new(offset_, now_, records_, overflow_checks_) ==
    [offset |-> offset_, now |-> now_, records |-> records_,
     overflow_checks |-> overflow_checks_]

---------------------------------------------------------------------------
(* Each rule is an operator from the text and a position to a result.  A   *)
(* rule that goes on from the result of another takes that result as a     *)
(* parameter (r, n, d, ...), in the order the grammar matches.             *)

\* The ordered choice a / b; a panic in a is not a mismatch
or_else(a, b) == IF a.st = "fail" THEN b ELSE a

\* rule _ = quiet!{[' ']*}
ws(s, i) == skip_char(s, i, " ")

\* rule end() = !['a'..='z' | 'A'..='Z']
end_rule(s, i) == At(s, i) \notin Letters

---------------------------------------------------------------------------
(* Numbers.  An f64 n >= 0 read by the number rule is [int, num, den]:     *)
(* n = int + num/den, int saturated just above I64_MAX (every cast of the  *)
(* grammar saturates there).                                               *)

\* The f64 of digits s[i..j-1], then "." and the digits s[j+1..k-1] if k > j
number_value(s, i, j, k) ==
    [int |-> decimal(s, i, j - 1, 0, I64_MAX + 1),
     num |-> IF k > j + 1 THEN decimal(s, j + 1, k - 1, 0, pow10(k - j - 1)) ELSE 0,
     den |-> IF k > j + 1 THEN pow10(k - j - 1) ELSE 1]

\* ['0'..='9']+ matched up to j, then (r"."(['0'..='9']+)?)?
number_fraction(s, i, j) ==
    IF j = i THEN Failed
    ELSE IF At(s, j) = "."
    THEN Matched(skip_digits(s, j + 1), number_value(s, i, j, skip_digits(s, j + 1)))
    ELSE Matched(j, number_value(s, i, j, j))

\* rule number() -> f64
number(s, i) == number_fraction(s, i, skip_digits(s, i))

\* `n as i64`: truncates, saturates at i64::MAX
as_i64(n) == IF n.int > I64_MAX THEN I64_MAX ELSE n.int

\* `-n as i64`: truncates, saturates at i64::MIN
neg_as_i64(n) == IF n.int > I64_MAX THEN I64_MIN ELSE -n.int

\* A value v >= 0 saturated at i64::MAX
saturated(v) == IF v > I64_MAX THEN I64_MAX ELSE v

\* `(n * unit) as i64` for unit milliseconds per n
scaled_as_i64(n, unit) ==
    IF n.int > I64_MAX \div unit THEN I64_MAX
    ELSE saturated(n.int * unit + (n.num * unit) \div n.den)

---------------------------------------------------------------------------
(* Duration terms *)

MS_PER_MINUTE == 60000
MS_PER_HOUR == 3600000
MS_PER_DAY == 86400000

\* n:number() suffix end() { Duration::milliseconds((n * unit) as i64) }
unit_term(n, s, suffix, unit) ==
    IF n.st = "ok" /\ At(s, n.pos) = suffix /\ end_rule(s, n.pos + 1)
    THEN Matched(n.pos + 1, scaled_as_i64(n.val, unit))
    ELSE Failed

\* n:number() "d": no end() after the suffix
days_term(n, s) ==
    IF n.st = "ok" /\ At(s, n.pos) = "d"
    THEN Matched(n.pos + 1, scaled_as_i64(n.val, MS_PER_DAY))
    ELSE Failed

\* n:number() "ms" end() { Duration::milliseconds(n as i64) }
milliseconds_term(n, s) ==
    IF n.st = "ok" /\ At(s, n.pos) = "m" /\ At(s, n.pos + 1) = "s"
       /\ end_rule(s, n.pos + 2)
    THEN Matched(n.pos + 2, as_i64(n.val))
    ELSE Failed

\* rule seconds() -> Duration
seconds(s, i) == unit_term(number(s, i), s, "s", MILLIS_PER_SEC)

\* rule minutes() -> Duration
minutes(s, i) == unit_term(number(s, i), s, "m", MS_PER_MINUTE)

\* rule hours() -> Duration
hours(s, i) == unit_term(number(s, i), s, "h", MS_PER_HOUR)

\* rule days() -> Duration
days(s, i) == days_term(number(s, i), s)

\* rule milliseconds() -> Duration
milliseconds(s, i) == milliseconds_term(number(s, i), s)

\* rule duration() -> Duration: the ordered choice s / m / h / d / ms
duration(s, i) ==
    or_else(seconds(s, i),
    or_else(minutes(s, i),
    or_else(hours(s, i),
    or_else(days(s, i), milliseconds(s, i)))))

\* duration_expression's precedence climbing: after the left operand acc
\* (ending before pos) the operator "" always matches and the right operand
\* y is one more duration; x + y is chrono's Duration add.
RECURSIVE duration_run(_, _, _), duration_more(_, _, _, _), duration_sum(_, _, _)
duration_run(s, pos, acc) == duration_more(s, pos, acc, duration(s, pos))
duration_more(s, pos, acc, y) ==
    IF y.st # "ok" THEN Matched(pos, acc)
    ELSE duration_sum(s, y.pos, Duration_add(acc, y.val))
duration_sum(s, pos, sum) ==
    IF sum.type = "Panic" THEN Panicked ELSE duration_run(s, pos, sum.v)

\* A variant of duration_expression that stops after its first operand
duration_first_only(s, d) == d

\* The first operand d of duration_expression, then its loop
duration_first(s, d) == IF d.st # "ok" THEN Failed ELSE duration_run(s, d.pos, d.val)

\* rule duration_expression() -> Duration
duration_expression(s, i) == duration_first(s, duration(s, i))

---------------------------------------------------------------------------
(* Quoted date-time literals *)

\* rule n_digit_number(n: usize) -> u32: exactly n digits
n_digit_number(s, i, n) ==
    IF \A k \in i..(i + n - 1) : At(s, k) \in DigitSet
    THEN Matched(i + n, decimal(s, i, i + n - 1, 0, pow10(n)))
    ELSE Failed

\* The fields read so far (r.val), then one more field d
with_field(r, d) == IF d.st = "ok" THEN Matched(d.pos, Append(r.val, d.val)) ELSE Failed

\* After r: n_digit_number(n)
then_digits(r, s, n) ==
    IF r.st = "ok" THEN with_field(r, n_digit_number(s, r.pos, n)) ELSE Failed

\* After r: `##parse_string_literal(sep) +` or `":" +`, one or more sep
then_literal_plus(r, s, sep) ==
    IF r.st = "ok" /\ At(s, r.pos) = sep
    THEN Matched(skip_char(s, r.pos, sep), r.val)
    ELSE Failed

\* After r: year sep+ month sep+ day
then_ydm_fmt(r, s, sep) ==
    then_digits(then_literal_plus(
    then_digits(then_literal_plus(
    then_digits(r, s, 4), s, sep), s, 2), s, sep), s, 2)

\* After r: hour ":"+ minute ":"+ second
then_hms_fmt(r, s) ==
    then_digits(then_literal_plus(
    then_digits(then_literal_plus(
    then_digits(r, s, 2), s, ":"), s, 2), s, ":"), s, 2)

\* rule ydm_fmt(sep: &str) -> (i32, u32, u32)
ydm_fmt(s, i, sep) == then_ydm_fmt(Matched(i, <<>>), s, sep)

\* rule hms_fmt() -> (u32, u32, u32)
hms_fmt(s, i) == then_hms_fmt(Matched(i, <<>>), s)

\* chrono: the proleptic Gregorian calendar
is_leap_year(y) == y % 4 = 0 /\ (y % 100 # 0 \/ y % 400 = 0)

days_in_month(y, m) ==
    CASE m \in {1, 3, 5, 7, 8, 10, 12} -> 31
      [] m \in {4, 6, 9, 11} -> 30
      [] m = 2 -> IF is_leap_year(y) THEN 29 ELSE 28
      [] OTHER -> 0

\* chrono: TimeZone::ymd_opt is LocalResult::Single for a FixedOffset exactly
\* when NaiveDate::from_ymd_opt is Some
ymd_opt_is_single(y, m, d) == m >= 1 /\ m <= 12 /\ d >= 1 /\ d <= days_in_month(y, m)

\* chrono: Date::and_hms_opt is Some exactly when NaiveTime::from_hms_opt is
and_hms_opt_is_some(h, mi, sec) == h <= 23 /\ mi <= 59 /\ sec <= 59

\* The days from 1970-01-01 to y-m-d, from the shifted year yy (March first),
\* its era of 400 years and the shifted month mp
days_from_era(yy, era, mp, d) ==
    era * 146097 + (yy - era * 400) * 365 + (yy - era * 400) \div 4
    - (yy - era * 400) \div 100 + (153 * mp + 2) \div 5 + d - 1 - 719468

days_from_shifted(yy, mp, d) == days_from_era(yy, yy \div 400, mp, d)

\* chrono: days from 1970-01-01 to the civil date y-m-d
days_from_civil(y, m, d) ==
    IF m <= 2 THEN days_from_shifted(y - 1, m + 9, d)
    ELSE days_from_shifted(y, m - 3, d)

\* A variant of the timestamp that adds the offset
datetime_timestamp_plus_tz(tz, y, m, d, h, mi, sec) ==
    days_from_civil(y, m, d) * 86400 + h * 3600 + mi * 60 + sec + tz

\* chrono: DateTime<FixedOffset>::timestamp of the local fields in tz (seconds east)
datetime_timestamp(tz, y, m, d, h, mi, sec) ==
    days_from_civil(y, m, d) * 86400 + h * 3600 + mi * 60 + sec - tz

\* A variant of the action of datetime_fmt that takes hour 24 and minute
\* and second 60
datetime_value_lenient(state, f) ==
    IF ymd_opt_is_single(f[1], f[2], f[3]) /\ f[4] <= 24 /\ f[5] <= 60 /\ f[6] <= 60
    THEN ETimestamp(datetime_timestamp(state.offset, f[1], f[2], f[3], f[4], f[5], f[6]))
    ELSE ENone

\* The action of datetime_fmt on the fields f = (year, month, day, hour,
\* minute, second)
datetime_value(state, f) ==
    IF ymd_opt_is_single(f[1], f[2], f[3]) /\ and_hms_opt_is_some(f[4], f[5], f[6])
    THEN ETimestamp(datetime_timestamp(state.offset, f[1], f[2], f[3], f[4], f[5], f[6]))
    ELSE ENone

\* The opening quote
quote(s, i) == IF At(s, i) = "'" THEN Matched(i + 1, <<>>) ELSE Failed

\* After the fields r: the closing quote and the action
datetime_close(r, s, state) ==
    IF r.st = "ok" /\ At(s, r.pos) = "'"
    THEN Matched(r.pos + 1, datetime_value(state, r.val))
    ELSE Failed

\* rule datetime_fmt(sep_ymd: &str, sep: &str) -> Expression
datetime_fmt(s, i, state, sep_ymd, sep) ==
    datetime_close(
        then_hms_fmt(then_literal_plus(then_ydm_fmt(quote(s, i), s, sep_ymd), s, sep), s),
        s, state)

\* rule datetime() -> Expression
datetime(s, i, state) ==
    or_else(datetime_fmt(s, i, state, "-", " "),
    or_else(datetime_fmt(s, i, state, "-", "T"),
            datetime_fmt(s, i, state, "/", " ")))

---------------------------------------------------------------------------
(* Timestamps and back-references *)

\* ("-")n:number()end() {Expression::Timestamp(-n as i64)}, n after the "-"
negative_end(n, s) ==
    IF n.st = "ok" /\ end_rule(s, n.pos)
    THEN Matched(n.pos, ETimestamp(neg_as_i64(n.val)))
    ELSE Failed

negative_timestamp(s, i) ==
    IF At(s, i) = "-" THEN negative_end(number(s, i + 1), s) ELSE Failed

\* n:number()end() {Expression::Timestamp(n as i64)}
positive_end(n, s) ==
    IF n.st = "ok" /\ end_rule(s, n.pos)
    THEN Matched(n.pos, ETimestamp(as_i64(n.val)))
    ELSE Failed

positive_timestamp(s, i) == positive_end(number(s, i), s)

\* $("now") {Expression::Timestamp(state.now)}
now_timestamp(s, i, state) ==
    IF At(s, i) = "n" /\ At(s, i + 1) = "o" /\ At(s, i + 2) = "w"
    THEN Matched(i + 3, ETimestamp(state.now))
    ELSE Failed

\* rule timestamp() -> Expression
timestamp(s, i, state) ==
    or_else(negative_timestamp(s, i),
    or_else(positive_timestamp(s, i),
    or_else(datetime(s, i, state), now_timestamp(s, i, state))))

\* A variant of the action of record that reads records.get(record_index)
record_get_zero_based(k, record_index, state) ==
    IF record_index > USIZE_MAX THEN Panicked
    ELSE IF record_index + 1 <= Len(state.records)
    THEN Matched(k, state.records[record_index + 1])
    ELSE Matched(k, ENone)

\* The action of record for the index text ending before k:
\* idx.parse::<usize>().unwrap() panics past usize::MAX; record_index - 1 at
\* 0 panics in a build with overflow checks and wraps to usize::MAX (no
\* such record) without; state.records.get(record_index - 1).
record_get(k, record_index, state) ==
    IF record_index > USIZE_MAX THEN Panicked
    ELSE IF record_index = 0
    THEN (IF state.overflow_checks THEN Panicked ELSE Matched(k, ENone))
    ELSE IF record_index <= Len(state.records)
    THEN Matched(k, state.records[record_index])
    ELSE Matched(k, ENone)

\* idx:$(['0'..='9']+) from j up to k
record_index_text(s, j, k, state) ==
    IF k = j THEN Failed
    ELSE record_get(k, decimal(s, j, k - 1, 0, USIZE_MAX + 1), state)

\* `"#" +` matched from i up to j: one or more "#"
record_hashes(s, i, j, state) ==
    IF j = i THEN Failed ELSE record_index_text(s, j, skip_digits(s, j), state)

\* rule record() -> Expression
record(s, i, state) == record_hashes(s, i, skip_char(s, i, "#"), state)

---------------------------------------------------------------------------
(* rule expression(): precedence climbing over `+` and `-` *)

RECURSIVE expression(_, _, _), atom(_, _, _), parenthesis(_, _, _),
          expression_loop(_, _, _, _), loop_operator(_, _, _, _, _),
          loop_operand(_, _, _, _, _, _), loop_value(_, _, _, _)

\* _ ")" after the inner expression
parenthesis_close(inner, s, close) ==
    IF inner.st = "ok" /\ At(s, close) = ")" THEN Matched(close + 1, inner.val)
    ELSE IF inner.st = "panic" THEN Panicked
    ELSE Failed

parenthesis_inner(inner, s) ==
    parenthesis_close(inner, s, IF inner.st = "ok" THEN ws(s, inner.pos) ELSE 0)

\* "(" _ v:expression() _ ")" { v }
parenthesis(s, i, state) ==
    IF At(s, i) = "(" THEN parenthesis_inner(expression(s, ws(s, i + 1), state), s)
    ELSE Failed

\* d:duration_expression() { Expression::Duration(d) }
duration_atom(d) == IF d.st = "ok" THEN Matched(d.pos, EDuration(d.val)) ELSE d

\* The atoms of expression, in order
atom(s, i, state) ==
    or_else(parenthesis(s, i, state),
    or_else(duration_atom(duration_expression(s, i)),
    or_else(timestamp(s, i, state), record(s, i, state))))

\* x + y or x - y is the next left operand
loop_value(s, pos, v, state) ==
    IF v.type = "Panic" THEN Panicked ELSE expression_loop(s, pos, v, state)

\* The right operand y of the operator op after x (ending before pos)
loop_operand(s, pos, x, op, y, state) ==
    IF y.st = "panic" THEN Panicked
    ELSE IF y.st = "fail" THEN Matched(pos, x)
    ELSE loop_value(s, y.pos, IF op = "+" THEN add(x, y.val) ELSE sub(x, y.val), state)

\* A variant of the operators that is right-associative: the right operand
\* is the whole expression after the operator
loop_operand_right(pos, x, op, y) ==
    IF y.st = "panic" THEN Panicked
    ELSE IF y.st = "fail" THEN Matched(pos, x)
    ELSE IF (IF op = "+" THEN add(x, y.val) ELSE sub(x, y.val)).type = "Panic" THEN Panicked
    ELSE Matched(y.pos, IF op = "+" THEN add(x, y.val) ELSE sub(x, y.val))

loop_operator_right(s, pos, x, p, state) ==
    IF At(s, p) \in {"+", "-"}
    THEN loop_operand_right(pos, x, At(s, p), expression(s, ws(s, p + 1), state))
    ELSE Matched(pos, x)

\* `_ "+" _ y:@` then `_ "-" _ y:@`, the operator at p
loop_operator(s, pos, x, p, state) ==
    IF At(s, p) \in {"+", "-"}
    THEN loop_operand(s, pos, x, At(s, p), atom(s, ws(s, p + 1), state), state)
    ELSE Matched(pos, x)

\* After the left operand x (ending before pos); left-associative
expression_loop(s, pos, x, state) == loop_operator(s, pos, x, ws(s, pos), state)

\* The first operand x, then the loop
expression_first(x, s, state) ==
    IF x.st # "ok" THEN x ELSE expression_loop(s, x.pos, x.val, state)

expression(s, i, state) == expression_first(atom(s, i, state), s, state)

\* The rule must match the whole input
whole_input(r, s) == IF r.st = "ok" /\ r.pos # Len(s) + 1 THEN Failed ELSE r

\* arithmetic::expression(input, &state): Ok when the rule matches the whole
\* input, Err otherwise (or the panic of an action).
arithmetic_expression(s, state) == whole_input(expression(s, 1, state), s)

---------------------------------------------------------------------------
(* Offset directives *)

\* str::trim
RECURSIVE trim_start(_), trim_end(_)
trim_start(s) == IF s # <<>> /\ Head(s) \in Whitespace THEN trim_start(Tail(s)) ELSE s
trim_end(s) ==
    IF s # <<>> /\ s[Len(s)] \in Whitespace THEN trim_end(SubSeq(s, 1, Len(s) - 1)) ELSE s
\* A variant of trim that leaves the whitespace at the end
trim_leading(s) == trim_start(s)

trim(s) == trim_end(trim_start(s))

\* ^#UTC([+-])(\d{1,2})$
time_zone_regex(s) ==
    /\ Len(s) \in {6, 7}
    /\ SubSeq(s, 1, 4) = <<"#", "U", "T", "C">>
    /\ s[5] \in {"+", "-"}
    /\ \A k \in 6..Len(s) : s[k] \in DigitSet

\* The captures: the sign and the value x, -23..=23 => Some(x * 3600)
time_zone_value(sign, x) ==
    IF x > 23 THEN NoneOpt
    ELSE IF sign = "+" THEN Some(x * SECS_PER_HOUR)
    ELSE Some(-(x * SECS_PER_HOUR))

time_zone_of(s) ==
    IF time_zone_regex(s) THEN time_zone_value(s[5], decimal(s, 6, Len(s), 0, 100))
    ELSE NoneOpt

\* fn get_time_zone(input: &str) -> Option<FixedOffset>, in seconds east
get_time_zone(line) == time_zone_of(trim(line))

---------------------------------------------------------------------------
(* Lines *)

\* records.iter().map(|record| record.into()).collect()
expressions_of(records_) == [k \in 1..Len(records_) |-> records_[k].expression]

\* The Some / None arms of `match get_time_zone(input)`
time_zone_arm(tz) == IF tz.some THEN EOffset(tz.v) ELSE ENone

\* parse_line's match on the grammar's result r: the arm taken ("ok" the
\* grammar's result, "err" get_time_zone decides, "panic" it unwinds) and
\* the Expression, or Panic
parse_line_match(r, line) ==
    IF r.st = "ok" THEN [arm |-> "ok", expression |-> r.val]
    ELSE IF r.st = "panic" THEN [arm |-> "panic", expression |-> Panic]
    ELSE [arm |-> "err", expression |-> time_zone_arm(get_time_zone(line))]

\* fn parse_line
parse_line(line, offset_, now_, records_, oc) ==
    parse_line_match(
        arithmetic_expression(line, State_new(offset_, now_, expressions_of(records_), oc)),
        line)

\* A variant of the match on catch_unwind that gives a panic a value
catch_unwind_leaking(result) ==
    IF result.expression.type = "Panic"
    THEN [arm |-> result.arm, expression |-> ETimestamp(0)]
    ELSE result

\* panic::catch_unwind and the match on it: a panic is Expression::None
catch_unwind(result) ==
    IF result.expression.type = "Panic"
    THEN [arm |-> result.arm, expression |-> ENone]
    ELSE result

\* fn safe_parse_line
safe_parse_line(line, offset_, now_, records_, oc) ==
    catch_unwind(parse_line(line, offset_, now_, records_, oc))

---------------------------------------------------------------------------
(* fn parse: the line sequencer *)

\* str::find from position i: the position of the next line feed, or
\* Len(s) + 1 without one
find(s, i) ==
    IF \E p \in i..Len(s) : s[p] = "\n"
    THEN CHOOSE p \in i..Len(s) : s[p] = "\n" /\ \A q \in i..(p - 1) : s[q] # "\n"
    ELSE Len(s) + 1

RECURSIVE str_split(_, _)

\* A variant of split that yields no piece after the last line feed, as
\* split_terminator and lines do
str_split_terminated(s, i) ==
    IF i > Len(s) THEN <<>>
    ELSE IF find(s, i) > Len(s) THEN <<SubSeq(s, i, Len(s))>>
    ELSE <<SubSeq(s, i, find(s, i) - 1)>> \o str_split(s, find(s, i) + 1)

\* The piece from i up to the next line feed at p, then the pieces after
\* it; the piece up to the end is the last one
split_next(s, i, p) ==
    IF p > Len(s) THEN <<SubSeq(s, i, Len(s))>>
    ELSE <<SubSeq(s, i, p - 1)>> \o str_split(s, p + 1)

\* input.split('\n') from position i: the pieces between line feeds, one
\* more than there are line feeds
str_split(s, i) == split_next(s, i, find(s, i))

\* Record { offset, expression }
Record(offset_, expression_) == [offset |-> offset_, expression |-> expression_]

\* A variant of the update that keeps the offset after every expression
next_offset_kept(offset_, expression_) == offset_

\* offset = match expression { Expression::Offset(offset) => offset, _ => offset }
next_offset(offset_, expression_) ==
    IF expression_.type = "Offset" THEN expression_.v ELSE offset_

\* A variant of the push that stores the offset after its update
pushed_record_declared(offset_, expression_) ==
    Record(next_offset(offset_, expression_), expression_)

\* records.push(Record { offset, expression })
pushed_record(offset_, expression_) == Record(offset_, expression_)

\* let mut records = vec![]; let mut offset = FixedOffset::east(0);
\* let split = input.split('\n');
parse_begin(doc, n, oc) ==
    /\ input = doc
    /\ now = n
    /\ overflow_checks = oc
    /\ split = str_split(doc, 1)
    /\ records = <<>>
    /\ offset = 0
    /\ outcomes = <<>>
    /\ pc = "loop"
    /\ self_duration = 0

\* The body of `for line in split` for the line's result
parse_body(result) ==
    /\ records' = Append(records, pushed_record(offset, result.expression))
    /\ offset' = next_offset(offset, result.expression)
    /\ outcomes' = Append(outcomes, result.arm)

\* One iteration of `for line in split`
parse_for_line ==
    /\ pc = "loop"
    /\ split # <<>>
    /\ parse_body(safe_parse_line(Head(split), offset, now, records, overflow_checks))
    /\ split' = Tail(split)
    /\ UNCHANGED <<input, now, overflow_checks, pc, self_duration>>

\* The iterator is exhausted: `records` is returned
parse_return ==
    /\ pc = "loop"
    /\ split = <<>>
    /\ pc' = "done"
    /\ UNCHANGED <<input, now, overflow_checks, split, records, offset, outcomes, self_duration>>

Next == parse_for_line \/ parse_return

---------------------------------------------------------------------------
(* Building the texts the specifications draw their documents from *)

\* The decimal digits of a natural number
RECURSIVE Dec(_)
Dec(n) == IF n < 10 THEN <<Digits[n + 1]>> ELSE Dec(n \div 10) \o <<Digits[(n % 10) + 1]>>

\* n in exactly two, and four, digits
Dec2(n) == <<Digits[((n \div 10) % 10) + 1], Digits[(n % 10) + 1]>>
Dec4(n) == Dec2(n \div 100) \o Dec2(n % 100)

\* The lines joined by line feeds
RECURSIVE Join(_)
Join(lines) ==
    IF Len(lines) = 0 THEN <<>>
    ELSE IF Len(lines) = 1 THEN lines[1]
    ELSE lines[1] \o <<"\n">> \o Join(Tail(lines))

\* All documents of 1..n lines drawn from pool
DocsOf(pool, n) == {Join(ls) : ls \in UNION {[1..k -> pool] : k \in 1..n}}

UtcPlus1 == <<"#", "U", "T", "C", "+", "1">>
UtcMinus2 == <<"#", "U", "T", "C", "-", "2">>
RefTooLarge == <<"#">> \o Dec(USIZE_MAX + 1)
DurationOverflow == Dec(I64_MAX) \o <<"m", "s", "1", "m", "s">>

\* The lines of the general specification: directives, back-references
\* (to line 0, to earlier lines, to later lines, past usize), a timestamp,
\* a duration, an overflowing duration sum, a grammar mismatch, nothing.
GenLines ==
    {<<>>, UtcPlus1, UtcMinus2, <<"#", "0">>, <<"#", "1">>, <<"#", "2">>,
     <<"#", "3">>, RefTooLarge, DurationOverflow, <<"5">>, <<"1", "s">>, <<"x">>}

Init ==
    \E doc \in DocsOf(GenLines, MaxLines), oc \in BOOLEAN :
        parse_begin(doc, 10, oc)

Spec == Init /\ [][Next]_vars

---------------------------------------------------------------------------
(* The algebra specification: documents of three lines, two operands and   *)
(* `#1 + #2` or `#1 - #2`.  The operands are literals and expressions that *)
(* evaluate to Timestamps and Durations at and around the ends of the i64  *)
(* range and of the range whose seconds convert to milliseconds, to an     *)
(* Offset and to None.                                                     *)

\* The largest number of seconds that converts to i64 milliseconds
MaxSecs == I64_MAX \div MILLIS_PER_SEC

\* An oversized numeric literal: ten times i64::MAX
Oversized == Dec(I64_MAX) \o <<"0">>

TimestampValues ==
    {I64_MIN, I64_MIN + 1, -(I64_MAX - MaxSecs), -(I64_MAX - MaxSecs - 1),
     -MaxSecs - 1, -MaxSecs, -2, -1, 0, 1, 2, MaxSecs, MaxSecs + 1,
     I64_MAX - MaxSecs - 1, I64_MAX - MaxSecs, I64_MAX - 1, I64_MAX}

DurationValues ==
    {I64_MIN, -I64_MAX, -2000, -1001, -1000, -999, -1, 0, 1, 500, 999, 1000,
     1001, 2000, I64_MAX - 1, I64_MAX}

\* A line that evaluates to Timestamp(v)
TimestampLine(v) == IF v >= 0 THEN Dec(v) ELSE <<"-">> \o Dec(-v)

\* A line that evaluates to Duration(v milliseconds)
DurationLine(v) ==
    IF v >= 0 THEN Dec(v) \o <<"m", "s">>
    ELSE IF v = I64_MIN
    THEN <<"0", "s", "-">> \o Dec(I64_MAX) \o <<"m", "s", "-", "1", "m", "s">>
    ELSE <<"0", "s", "-">> \o Dec(-v) \o <<"m", "s">>

OperandLines ==
    {TimestampLine(v) : v \in TimestampValues}
    \cup {DurationLine(v) : v \in DurationValues}
    \cup {Oversized, UtcPlus1, <<"x">>}

PlusLine == <<"#", "1", " ", "+", " ", "#", "2">>
MinusLine == <<"#", "1", " ", "-", " ", "#", "2">>

InitAlgebra ==
    \E x \in OperandLines, y \in OperandLines, op \in {PlusLine, MinusLine},
       oc \in BOOLEAN :
        parse_begin(Join(<<x, y, op>>), 10, oc)

SpecAlgebra == InitAlgebra /\ [][Next]_vars

\* The positions of the line feeds of the document
LineFeeds == {p \in 1..Len(input) : input[p] = "\n"}

\* The position of the k-th line feed; 0 and Len(input) + 1 stand for the
\* ends of the document
LineFeed(k) ==
    IF k = 0 THEN 0
    ELSE IF k > Cardinality(LineFeeds) THEN Len(input) + 1
    ELSE CHOOSE p \in LineFeeds : Cardinality({q \in LineFeeds : q < p}) = k - 1

\* The text of line k: between line feed k - 1 and line feed k
LineText(k) == SubSeq(input, LineFeed(k - 1) + 1, LineFeed(k) - 1)

\* The lines of the document
Lines == [k \in 1..(Cardinality(LineFeeds) + 1) |-> LineText(k)]

\* In SpecAlgebra, once the third line is evaluated: the operands, the
\* operator and the result
Evaluated == Len(records) = 3
Lhs == records[1].expression
Rhs == records[2].expression
IsPlus == Lines[3] = PlusLine
Result == records[3].expression

IsValue(e) == e.type \in {"Timestamp", "Duration"}

\* A duration's whole seconds, truncated toward zero
WholeSeconds(ms) == IF ms >= 0 THEN ms \div 1000 ELSE -((-ms) \div 1000)

\* The exact result of the table: its variant and its value, in seconds for
\* a Timestamp and for the Duration of two Timestamps (unit 1000), in
\* milliseconds for the Duration of two Durations (unit 1)
Exact(plus, l, r) ==
    CASE l.type = "Duration" /\ r.type = "Duration" ->
            [type |-> "Duration", unit |-> 1, n |-> IF plus THEN l.v + r.v ELSE l.v - r.v]
      [] l.type = "Duration" /\ r.type = "Timestamp" ->
            [type |-> "Timestamp", unit |-> 1,
             n |-> IF plus THEN r.v + WholeSeconds(l.v) ELSE WholeSeconds(l.v) - r.v]
      [] l.type = "Timestamp" /\ r.type = "Duration" ->
            [type |-> "Timestamp", unit |-> 1,
             n |-> IF plus THEN l.v + WholeSeconds(r.v) ELSE l.v - WholeSeconds(r.v)]
      [] l.type = "Timestamp" /\ r.type = "Timestamp" ->
            [type |-> "Duration", unit |-> 1000, n |-> IF plus THEN l.v + r.v ELSE l.v - r.v]

\* Whether the exact result is representable: the seconds of a Timestamp,
\* the seconds of a Timestamp +/- Timestamp and their milliseconds, the
\* milliseconds of a Duration, all within the signed range
Representable(e) ==
    /\ e.n >= I64_MIN /\ e.n <= I64_MAX
    /\ e.unit = 1000 => /\ e.n <= I64_MAX \div 1000
                        /\ -e.n <= (I64_MAX + 1) \div 1000

\* The Expression of a representable exact result
AsExpression(e) == [type |-> e.type, v |-> e.n * e.unit]

\* C1: when no overflow occurs, add and subtract of two Timestamp/Duration
\* operands give exactly the variant and value of the table (Duration +/-
\* Duration in milliseconds, anything with a Timestamp in whole seconds, the
\* duration truncated toward zero), and any add or subtract with an Offset
\* or None operand is None.
C1_AddSubTable ==
    Evaluated =>
        IF IsValue(Lhs) /\ IsValue(Rhs)
        THEN Representable(Exact(IsPlus, Lhs, Rhs))
                => Result = AsExpression(Exact(IsPlus, Lhs, Rhs))
        ELSE Result = ENone

\* A Duration minus a Timestamp gave the Timestamp duration.seconds - timestamp
C1_Witness ==
    /\ Evaluated /\ ~IsPlus
    /\ Lhs = EDuration(-1001) /\ Rhs = ETimestamp(2)
    /\ Result = ETimestamp(-3)

MFirst == Lines[1] = Oversized
MSecond == Lines[2] = Oversized

\* C3 as stated: M combined with any non-zero Timestamp or Duration operand,
\* on either side of + or -, is None.
C3_AnyNonZeroOperandIsNone ==
    Evaluated =>
        /\ MFirst /\ IsValue(Rhs) /\ Rhs.v # 0 => Result = ENone
        /\ MSecond /\ IsValue(Lhs) /\ Lhs.v # 0 => Result = ENone

\* Whether M combined with the Duration y overflows the seconds of a Timestamp
DurationOverflowsM(y, plus, mFirst) ==
    IF plus THEN WholeSeconds(y.v) >= 1
    ELSE IF mFirst THEN WholeSeconds(y.v) <= -1
    ELSE WholeSeconds(y.v) <= -2

\* What the amended C3 says of M combined with y
C3_Says(y, plus, mFirst) ==
    /\ y.type = "Timestamp" /\ y.v # 0
         /\ y.v < I64_MAX - MaxSecs /\ -y.v < I64_MAX - MaxSecs
            => Result = ENone
    /\ y.type = "Duration"
            => IF DurationOverflowsM(y, plus, mFirst) THEN Result = ENone
               ELSE Result = AsExpression(Exact(plus, IF mFirst THEN Lhs ELSE y,
                                                      IF mFirst THEN y ELSE Rhs))

\* C3, amended: M = Timestamp(i64::MAX) is what the oversized literal
\* saturates to; M combined on either side of + or - with a non-zero
\* Timestamp y of magnitude below i64::MAX - i64::MAX/1000 is None; M
\* combined with a Duration y is None exactly when the seconds overflow
\* (M + y and y + M from 1 s up, M - y from -1 s down, y - M from -2 s down)
\* and the exact Timestamp otherwise.
C3_SaturatedOperand ==
    Evaluated =>
        /\ MFirst => Lhs = ETimestamp(I64_MAX) /\ C3_Says(Rhs, IsPlus, TRUE)
        /\ MSecond => Rhs = ETimestamp(I64_MAX) /\ C3_Says(Lhs, IsPlus, FALSE)

\* 1 - M, the second case of test_overflow: None through the conversion of
\* the seconds to milliseconds
C3_Witness ==
    /\ Evaluated /\ ~IsPlus /\ MSecond
    /\ Lhs = ETimestamp(1) /\ Rhs = ETimestamp(I64_MAX)
    /\ Result = ENone

---------------------------------------------------------------------------
(* The general specification: offsets, fault isolation, one record per     *)
(* line, back-references.                                                  *)

\* fn parse as a function of the lines left, the records so far and the
\* offset: the records it returns
RECURSIVE parse_from(_, _, _, _, _)
parse_from(split_, records_, offset_, now_, oc) ==
    IF split_ = <<>> THEN records_
    ELSE LET expression_ == safe_parse_line(Head(split_), offset_, now_, records_, oc).expression
         IN  parse_from(Tail(split_),
                        Append(records_, pushed_record(offset_, expression_)),
                        next_offset(offset_, expression_), now_, oc)

\* fn parse on the document of the given lines
parse(lines, now_, oc) == parse_from(str_split(Join(lines), 1), <<>>, 0, now_, oc)

\* The positions of the records with an Offset expression before record k
OffsetsBefore(k) == {j \in 1..(k - 1) : records[j].expression.type = "Offset"}

\* The offset active before line k: that of the latest earlier record with
\* an Offset expression, UTC+0 without one
ActiveBefore(k) ==
    IF OffsetsBefore(k) = {} THEN 0
    ELSE records[CHOOSE j \in OffsetsBefore(k) : \A i \in OffsetsBefore(k) : i <= j].expression.v

\* The offset the directive line declares, for the directives of GenLines
Declared(line) == IF line = UtcPlus1 THEN 3600 ELSE -7200

\* C4: record k's offset is the offset active before line k was parsed,
\* UTC+0 if no earlier record has an Offset expression and otherwise the
\* value of the Offset expression of the latest earlier record that has
\* one; a line that declares an offset has the Offset as its expression
\* and the previous offset in its own record, and the declared offset is
\* the offset of the next record.
C4_RecordOffset ==
    \A k \in 1..Len(records) :
        /\ records[k].offset = ActiveBefore(k)
        /\ Lines[k] \in {UtcPlus1, UtcMinus2} =>
              /\ records[k].expression = EOffset(Declared(Lines[k]))
              /\ k < Len(records) => records[k + 1].offset = Declared(Lines[k])

\* #UTC+1, #UTC-2, 5: the records report UTC+0, UTC+1, UTC-2
C4_Witness ==
    /\ pc = "done"
    /\ Lines = <<UtcPlus1, UtcMinus2, <<"5">>>>
    /\ records = <<Record(0, EOffset(3600)), Record(3600, EOffset(-7200)),
                   Record(-7200, ETimestamp(5))>>

\* The lines with line i replaced by an empty line
Replaced(lines, i) == [k \in 1..Len(lines) |-> IF k = i THEN <<>> ELSE lines[k]]

\* C5: parse returns its records for every document, and for every line i
\* whose evaluation faults (unwinds) record i's expression is None and
\* every other record is the record of the same position of the document
\* with line i replaced by an empty line.
C5_FaultIsConfined ==
    pc = "done" =>
        /\ Len(records) = Len(Lines)
        /\ \A i \in 1..Len(records) :
              outcomes[i] = "panic" =>
                 /\ records[i].expression = ENone
                 /\ \A j \in (1..Len(records)) \ {i} :
                       records[j] = parse(Replaced(Lines, i), now, overflow_checks)[j]

\* 5, an overflowing duration sum, #1: the second line faulted and is None,
\* the lines around it are evaluated
C5_Witness ==
    /\ pc = "done"
    /\ Lines = <<<<"5">>, DurationOverflow, <<"#", "1">>>>
    /\ outcomes = <<"ok", "panic", "ok">>
    /\ expressions_of(records) = <<ETimestamp(5), ENone, ETimestamp(5)>>

\* Record k is the record of line k, evaluated after the records before it
IsRecordOfLine(k) ==
    records[k].expression =
        safe_parse_line(LineText(k), records[k].offset, now,
                        SubSeq(records, 1, k - 1), overflow_checks).expression

\* C6: parse returns exactly one record per line of the input split on
\* line feeds, in line order: as many records as line feeds plus one,
\* record k that of line k, the empty document exactly one record with
\* expression None; and no step changes or removes a record already
\* produced.
C6_OneRecordPerLine ==
    /\ [](pc = "done" =>
            /\ Len(records) = Cardinality(LineFeeds) + 1
            /\ \A k \in 1..Len(records) : IsRecordOfLine(k)
            /\ input = <<>> => records = <<Record(0, ENone)>>)
    /\ [][/\ Len(records') >= Len(records)
          /\ \A k \in 1..Len(records) : records'[k] = records[k]]_vars

\* Two line feeds, the lines around them empty: three records
C6_Witness ==
    /\ pc = "done"
    /\ input = <<"\n", "\n">>
    /\ records = <<Record(0, ENone), Record(0, ENone), Record(0, ENone)>>

\* The line consists of one "#" and digits
IsBackReference(line) ==
    /\ Len(line) >= 2
    /\ line[1] = "#"
    /\ \A j \in 2..Len(line) : line[j] \in DigitSet

\* The number the digits write, or cap if it is larger
RECURSIVE IndexValue(_, _)
IndexValue(digits, cap) ==
    IF digits = <<>> THEN 0
    ELSE LET n == 10 * IndexValue(SubSeq(digits, 1, Len(digits) - 1), cap)
                  + DigitVal(digits[Len(digits)])
         IN  IF n > cap THEN cap ELSE n

\* What C7 says of the back-reference to n on line k
C7_Says(k, n) ==
    IF 1 <= n /\ n < k THEN records[k].expression = records[n].expression
    ELSE records[k].expression = ENone

\* C7: a line at position k that consists of the back-reference #N has the
\* expression of record N if 1 <= N < k, counting every earlier line, and
\* None if N >= k or N = 0; and the document evaluation returns a record
\* for every line.
C7_BackReference ==
    /\ \A k \in 1..Len(records) :
          IsBackReference(Lines[k]) => C7_Says(k, IndexValue(Tail(Lines[k]), k))
    /\ pc = "done" => Len(records) = Len(Lines)

\* x, 5, #2: the reference counts the line that resolved to None
C7_Witness ==
    /\ pc = "done"
    /\ Lines = <<<<"x">>, <<"5">>, <<"#", "2">>>>
    /\ expressions_of(records) = <<ENone, ETimestamp(5), ETimestamp(5)>>

---------------------------------------------------------------------------
(* The date-time specification: documents of a quoted date-time literal,   *)
(* possibly after an offset directive, possibly followed by another        *)
(* directive and the literal again.  The literals are written from year,   *)
(* month, day, hour, minute and second fields, valid and invalid, in the   *)
(* three layouts of the grammar.                                           *)

DateFields ==
    {<<1970, 1, 1>>, <<1969, 12, 31>>, <<1972, 2, 29>>, <<1973, 4, 30>>,
     <<1970, 2, 29>>, <<1900, 2, 29>>, <<1971, 0, 10>>, <<1971, 13, 10>>,
     <<1971, 4, 31>>, <<1971, 6, 0>>}

TimeFields == {<<0, 0, 0>>, <<23, 59, 59>>, <<24, 0, 0>>, <<12, 60, 0>>, <<12, 0, 60>>}

\* The separator of the date fields and the separator of date and time
Layouts == {<<"-", " ">>, <<"-", "T">>, <<"/", " ">>}

DateTimeLine(d, t, l) ==
    <<"'">> \o Dec4(d[1]) \o <<l[1]>> \o Dec2(d[2]) \o <<l[1]>> \o Dec2(d[3])
    \o <<l[2]>> \o Dec2(t[1]) \o <<":">> \o Dec2(t[2]) \o <<":">> \o Dec2(t[3])
    \o <<"'">>

DateTimeLines == {DateTimeLine(d, t, l) : d \in DateFields, t \in TimeFields, l \in Layouts}

UtcPlus23 == <<"#", "U", "T", "C", "+", "2", "3">>
UtcMinus23 == <<"#", "U", "T", "C", "-", "2", "3">>
DirectiveLines == {UtcPlus1, UtcMinus2, UtcPlus23, UtcMinus23}

\* Nothing, or a directive and the literal again
Again(line) == {<<>>} \cup {<<d, line>> : d \in DirectiveLines}

InitDateTime ==
    \E line \in DateTimeLines, before \in {<<>>} \cup {<<d>> : d \in DirectiveLines},
       oc \in BOOLEAN :
        \E after \in Again(line) :
            parse_begin(Join(before \o <<line>> \o after), 10, oc)

SpecDateTime == InitDateTime /\ [][Next]_vars

\* The line is a quoted date-time in one of the three layouts, each
\* separator written once
IsDateTimeLiteral(line) ==
    /\ Len(line) = 21
    /\ line[1] = "'" /\ line[21] = "'"
    /\ <<line[6], line[9], line[12]>> \in {<<"-", "-", " ">>, <<"-", "-", "T">>, <<"/", "/", " ">>}
    /\ line[15] = ":" /\ line[18] = ":"
    /\ \A p \in {2, 3, 4, 5, 7, 8, 10, 11, 13, 14, 16, 17, 19, 20} : line[p] \in DigitSet

\* The two digits at p and the fields of a literal
TwoDigits(line, p) == 10 * DigitVal(line[p]) + DigitVal(line[p + 1])
YearOf(line) == 100 * TwoDigits(line, 2) + TwoDigits(line, 4)
MonthOf(line) == TwoDigits(line, 7)
DayOf(line) == TwoDigits(line, 10)
HourOf(line) == TwoDigits(line, 13)
MinuteOf(line) == TwoDigits(line, 16)
SecondOf(line) == TwoDigits(line, 19)

\* The calendar: the lengths of the months, a day more in the February of
\* a leap year
MonthLengths == <<31, 28, 31, 30, 31, 30, 31, 31, 30, 31, 30, 31>>
LeapYear(y) == (y % 4 = 0 /\ y % 100 # 0) \/ y % 400 = 0
MonthLength(y, m) == MonthLengths[m] + (IF m = 2 /\ LeapYear(y) THEN 1 ELSE 0)

\* The fields of the literal are all valid
ValidFields(line) ==
    /\ MonthOf(line) \in 1..12
    /\ DayOf(line) \in 1..MonthLength(YearOf(line), MonthOf(line))
    /\ HourOf(line) \in 0..23
    /\ MinuteOf(line) \in 0..59
    /\ SecondOf(line) \in 0..59

\* C8: a quoted date-time literal in an accepted layout that names an
\* invalid calendar value (month outside 1..12, a day the month of that
\* year does not have, hour above 23, minute or second above 59) parses
\* successfully, with the expression None; a literal whose fields are all
\* valid parses to a Timestamp.
C8_InvalidCalendarIsNone ==
    \A k \in 1..Len(records) :
        IsDateTimeLiteral(Lines[k]) =>
            /\ outcomes[k] = "ok"
            /\ IF ValidFields(Lines[k]) THEN records[k].expression.type = "Timestamp"
               ELSE records[k].expression = ENone

\* 29 February 1900, not a leap year: parsed, None
C8_Witness ==
    /\ pc = "done"
    /\ Lines = <<DateTimeLine(<<1900, 2, 29>>, <<23, 59, 59>>, <<"-", "T">>)>>
    /\ outcomes = <<"ok">>
    /\ records = <<Record(0, ENone)>>

\* The days of the years from 1970 up to y, negative for the years from y
\* up to 1970
RECURSIVE DaysToYear(_)
DaysToYear(y) ==
    IF y = 1970 THEN 0
    ELSE IF y > 1970 THEN DaysToYear(y - 1) + (IF LeapYear(y - 1) THEN 366 ELSE 365)
    ELSE DaysToYear(y + 1) - (IF LeapYear(y) THEN 366 ELSE 365)

\* The days of the months of year y before month m
RECURSIVE DaysToMonth(_, _)
DaysToMonth(y, m) == IF m = 1 THEN 0 ELSE DaysToMonth(y, m - 1) + MonthLength(y, m - 1)

\* U: the epoch seconds of the fields of the literal read as UTC
EpochSeconds(line) ==
    (DaysToYear(YearOf(line)) + DaysToMonth(YearOf(line), MonthOf(line)) + DayOf(line) - 1)
        * 86400
    + HourOf(line) * 3600 + MinuteOf(line) * 60 + SecondOf(line)

\* The line is the directive #UTC+N or #UTC-N, N of one or two digits up to 23
IsDirective(line) ==
    /\ Len(line) \in {6, 7}
    /\ SubSeq(line, 1, 4) = <<"#", "U", "T", "C">>
    /\ line[5] \in {"+", "-"}
    /\ \A p \in 6..Len(line) : line[p] \in DigitSet
    /\ IndexValue(SubSeq(line, 6, Len(line)), 24) <= 23

\* The hours east the directive declares
DirectiveHours(line) ==
    IF line[5] = "+" THEN IndexValue(SubSeq(line, 6, Len(line)), 24)
    ELSE -IndexValue(SubSeq(line, 6, Len(line)), 24)

\* The directives before line k
DirectivesBefore(k) == {j \in 1..(k - 1) : IsDirective(Lines[j])}

\* o: the hours of the offset active for line k, those of the latest
\* directive before it
ActiveHours(k) ==
    IF DirectivesBefore(k) = {} THEN 0
    ELSE DirectiveHours(Lines[CHOOSE j \in DirectivesBefore(k) :
                                  \A i \in DirectivesBefore(k) : i <= j])

\* The evaluated lines that are valid date-time literals
ValidLiterals == {k \in 1..Len(records) : IsDateTimeLiteral(Lines[k]) /\ ValidFields(Lines[k])}

\* C9: a valid quoted date-time literal is the Timestamp U - 3600 * o, U
\* the epoch seconds of its fields read as UTC and o the hours of the
\* offset active for its line, that of the latest directive on a line
\* before it (UTC+0 without one); the same literal under offsets o1 and o2
\* gives timestamps that differ by 3600 * (o2 - o1).
C9_LiteralInActiveOffset ==
    /\ \A k \in ValidLiterals :
          records[k].expression = ETimestamp(EpochSeconds(Lines[k]) - 3600 * ActiveHours(k))
    /\ \A k1 \in ValidLiterals, k2 \in ValidLiterals :
          Lines[k1] = Lines[k2] =>
              records[k1].expression.v - records[k2].expression.v
                  = 3600 * (ActiveHours(k2) - ActiveHours(k1))

\* 1972-02-29 23:59:59 after #UTC+1 and again after #UTC-2: an hour before
\* and two hours after its UTC reading, 68255999
C9_Witness ==
    /\ pc = "done"
    /\ Lines = <<UtcPlus1, DateTimeLine(<<1972, 2, 29>>, <<23, 59, 59>>, <<"/", " ">>),
                 UtcMinus2, DateTimeLine(<<1972, 2, 29>>, <<23, 59, 59>>, <<"/", " ">>)>>
    /\ expressions_of(records)
          = <<EOffset(3600), ETimestamp(68255999 - 3600), EOffset(-7200),
              ETimestamp(68255999 + 7200)>>

---------------------------------------------------------------------------
(* The duration specification: documents of two or three duration terms,   *)
(* one on a line, an operand a, the terms written as a run, the terms      *)
(* joined by ` + `, `a - run` and `a - (joined)`.                          *)

\* The largest Duration, in milliseconds
LargestTerm == Dec(I64_MAX) \o <<"m", "s">>

TermLines ==
    {<<"0", "s">>, <<"1", "s">>, <<"2", "m">>, <<"3", "h">>, <<"0", ".", "5", "d">>,
     <<"5", "0", "0", "m", "s">>, <<"1", ".", "5", "h">>, LargestTerm}

\* A Timestamp, a Duration and now
MinuendLines == {<<"1", "0", "0">>, <<"5", "m">>, <<"n", "o", "w">>}

\* The texts one after the other, sep between them
RECURSIVE JoinWith(_, _)
JoinWith(texts, sep) ==
    IF Len(texts) = 1 THEN texts[1]
    ELSE texts[1] \o sep \o JoinWith(Tail(texts), sep)

PlusSign == <<" ", "+", " ">>
MinusSign == <<" ", "-", " ">>

\* The lines of the document of the terms and the operand a
DurationDocument(terms, a) ==
    terms \o <<a, JoinWith(terms, <<>>), JoinWith(terms, PlusSign),
               a \o MinusSign \o JoinWith(terms, <<>>),
               a \o MinusSign \o <<"(">> \o JoinWith(terms, PlusSign) \o <<")">>>>

InitDuration ==
    \E terms \in [1..2 -> TermLines] \cup [1..3 -> TermLines], a \in MinuendLines,
       oc \in BOOLEAN :
        parse_begin(Join(DurationDocument(terms, a)), 10, oc)

SpecDuration == InitDuration /\ [][Next]_vars

\* In SpecDuration: the number of terms, their lines and the places of the
\* other lines
TermCount == Len(Lines) - 5
Terms == SubSeq(Lines, 1, TermCount)
Minuend == records[TermCount + 1].expression
Run == records[TermCount + 2].expression
Joined == records[TermCount + 3].expression
MinusRun == records[TermCount + 4].expression
MinusJoined == records[TermCount + 5].expression

\* The document is evaluated and is that of its first lines, each of them
\* a valid duration term
RunEvaluated ==
    /\ Len(records) = Len(Lines)
    /\ TermCount >= 2
    /\ Lines = DurationDocument(Terms, Lines[TermCount + 1])
    /\ \A i \in 1..TermCount : records[i].expression.type = "Duration"

\* The sum of the individual terms, in milliseconds
RECURSIVE SumOfTerms(_)
SumOfTerms(n) == IF n = 0 THEN 0 ELSE SumOfTerms(n - 1) + records[n].expression.v

---------------------------------------------------------------------------
(* The directive specification: documents of a directive-like line and the *)
(* line `5`.  The directive-like line is `#UTC`, a sign or something else  *)
(* in its place, a magnitude, and possibly characters before and after.    *)

DirectiveBefore == {<<>>, <<" ">>, <<"\t">>, <<" ", "\t">>, <<"x">>, <<"1">>}
DirectiveSigns == {<<"+">>, <<"-">>, <<>>, <<"*">>, <<" ", "+">>}
DirectiveMagnitudes ==
    {<<>>, <<"0">>, <<"0", "0">>, <<"7">>, <<"0", "7">>, <<"2", "3">>, <<"2", "4">>,
     <<"9", "9">>, <<"0", "2", "3">>}
DirectiveAfter == {<<>>, <<" ">>, <<"\t">>, <<"\r">>, <<" ", "\r">>, <<"x">>, <<" ", "x">>}

InitDirective ==
    \E b \in DirectiveBefore, s \in DirectiveSigns, m \in DirectiveMagnitudes,
       a \in DirectiveAfter, oc \in BOOLEAN :
        parse_begin(Join(<<b \o <<"#", "U", "T", "C">> \o s \o m \o a, <<"5">>>>), 10, oc)

SpecDirective == InitDirective /\ [][Next]_vars

\* The positions of the line that hold no space, tab or carriage return
InkPositions(line) == {p \in 1..Len(line) : line[p] \notin {" ", "\t", "\r"}}

\* The line without the spaces, tabs and carriage returns before its first
\* and after its last other character
Stripped(line) ==
    IF InkPositions(line) = {} THEN <<>>
    ELSE SubSeq(line,
                CHOOSE p \in InkPositions(line) : \A q \in InkPositions(line) : p <= q,
                CHOOSE p \in InkPositions(line) : \A q \in InkPositions(line) : q <= p)

\* The Offset of the directive text, None for any other text
DirectiveValue(text) ==
    IF IsDirective(text) THEN EOffset(3600 * DirectiveHours(text)) ELSE ENone

\* C11 as stated: a line is Offset(+N hours) or Offset(-N hours) when its
\* text is exactly #UTC+N or #UTC-N, N of one or two digits in 0..23, and
\* None with a bad or missing sign, a magnitude above 23 or any extra
\* character before or after the directive, whitespace included.
C11_ExactDirectiveOnly ==
    Len(records) >= 1 => records[1].expression = DirectiveValue(Lines[1])

\* C11, amended: a line is Offset(+N hours) or Offset(-N hours) when its
\* text without leading and trailing whitespace (spaces, tabs, carriage
\* returns) is exactly #UTC+N or #UTC-N, N of one or two digits in 0..23;
\* with a bad or missing sign, a magnitude above 23, a third digit,
\* whitespace inside the directive or any other extra character before or
\* after it the line is None.  The Offset is the offset of the next record.
C11_TrimmedDirective ==
    /\ Len(records) >= 1 => records[1].expression = DirectiveValue(Stripped(Lines[1]))
    /\ Len(records) >= 2 =>
          records[2].offset = IF IsDirective(Stripped(Lines[1]))
                              THEN 3600 * DirectiveHours(Stripped(Lines[1])) ELSE 0

\* #UTC-07 between a space and a carriage return is Offset(-7 hours)
C11_Witness ==
    /\ pc = "done"
    /\ Lines[1] = <<" ", "#", "U", "T", "C", "-", "0", "7", "\r">>
    /\ records = <<Record(0, EOffset(-25200)), Record(-25200, ETimestamp(5))>>

---------------------------------------------------------------------------
(* Duration formatting (src/src/main.rs, impl ToFormattedString for        *)
(* Duration) and the specification of a Duration that is formatted and     *)
(* whose rendering is then evaluated as a one-line document.               *)

\* i64's Display: the decimal digits of a value that is not negative
RECURSIVE i64_to_string(_)
i64_to_string(n) ==
    IF n < 10 THEN <<Digits[n + 1]>>
    ELSE Append(i64_to_string(n \div 10), Digits[(n % 10) + 1])

\* chrono: Duration::num_days / num_hours / num_minutes / num_seconds of a
\* Duration of abs milliseconds; abs is not negative where they are used
num_days(abs) == abs \div 86400000
num_hours(abs) == abs \div 3600000
num_minutes(abs) == abs \div 60000

\* A variant of the component that is written when it is zero too
format_component_always(string, value, suffix) ==
    string \o i64_to_string(value) \o suffix

\* if value > 0 { string = format!("{string}{}suffix", value) }
format_component(string, value, suffix) ==
    IF value > 0 THEN string \o i64_to_string(value) \o suffix ELSE string

\* let mut string = sign.to_string(); and the five components in order
format_components(sign, days_, hours_, minutes_, seconds_, milliseconds_) ==
    format_component(
    format_component(
    format_component(
    format_component(
    format_component(sign, days_, <<"d">>), hours_, <<"h">>), minutes_, <<"m">>),
        seconds_, <<"s">>), milliseconds_, <<"m", "s">>)

\* let milliseconds = abs.num_milliseconds() - days * 24 * 60 * 60 * 1000 - ...
format_milliseconds(abs, sign, days_, hours_, minutes_, seconds_) ==
    format_components(sign, days_, hours_, minutes_, seconds_,
        abs - days_ * 24 * 60 * 60 * 1000 - hours_ * 60 * 60 * 1000
            - minutes_ * 60 * 1000 - seconds_ * 1000)

\* let seconds = abs.num_seconds() - days * 24 * 60 * 60 - hours * 60 * 60 - minutes * 60
format_seconds(abs, sign, days_, hours_, minutes_) ==
    format_milliseconds(abs, sign, days_, hours_, minutes_,
        num_seconds(abs) - days_ * 24 * 60 * 60 - hours_ * 60 * 60 - minutes_ * 60)

\* let minutes = abs.num_minutes() - days * 24 * 60 - hours * 60
format_minutes(abs, sign, days_, hours_) ==
    format_seconds(abs, sign, days_, hours_, num_minutes(abs) - days_ * 24 * 60 - hours_ * 60)

\* let hours = abs.num_hours() - days * 24
format_hours(abs, sign, days_) == format_minutes(abs, sign, days_, num_hours(abs) - days_ * 24)

\* let days = abs.num_days()
format_abs(abs, sign) == format_hours(abs, sign, num_days(abs))

\* A variant of to_fmt_string without the case of the zero duration
to_fmt_string_no_zero(d) ==
    IF d < 0 THEN format_abs(-d, <<"-">>) ELSE format_abs(d, <<>>)

\* fn to_fmt_string(&self) -> String, of a Duration of d milliseconds
to_fmt_string(d) ==
    IF d = 0 THEN <<"0", "s">>
    ELSE IF d < 0 THEN format_abs(-d, <<"-">>)
    ELSE format_abs(d, <<>>)

\* The components the format specification draws its durations from
FormatDays == {0, 1}
FormatHours == {0, 1, 13, 23}
FormatMinutes == {0, 1, 59}
FormatSeconds == {0, 7, 59}
FormatMillis == {0, 1, 999}

\* The durations, of both signs, within the Duration range
FormatDurations ==
    {m \in {sg * ((((d * 24 + h) * 60 + mi) * 60 + s) * 1000 + ms) :
                sg \in {1, -1}, d \in FormatDays, h \in FormatHours, mi \in FormatMinutes,
                s \in FormatSeconds, ms \in FormatMillis} \cup {I64_MAX, -I64_MAX} :
        m <= I64_MAX /\ -m <= I64_MAX}

InitFormat ==
    /\ self_duration \in FormatDurations
    /\ overflow_checks \in BOOLEAN
    /\ now = 10
    /\ input = <<>>
    /\ split = <<>>
    /\ records = <<>>
    /\ offset = 0
    /\ outcomes = <<>>
    /\ pc = "format"

\* to_fmt_string is called on the Duration, and its rendering is handed to
\* parse as the document
to_fmt_string_call ==
    /\ pc = "format"
    /\ input' = to_fmt_string(self_duration)
    /\ split' = str_split(to_fmt_string(self_duration), 1)
    /\ pc' = "loop"
    /\ UNCHANGED <<now, overflow_checks, records, offset, outcomes, self_duration>>

NextFormat == to_fmt_string_call \/ parse_for_line \/ parse_return

SpecFormat == InitFormat /\ [][NextFormat]_vars

\* The magnitude of the duration
Magnitude == IF self_duration < 0 THEN -self_duration ELSE self_duration

\* The components of the magnitude: days, and hours below 24, minutes and
\* seconds below 60, milliseconds below 1000, that add up to it
ComponentsOf(m) ==
    <<m \div 86400000, (m \div 3600000) % 24, (m \div 60000) % 60, (m \div 1000) % 60, m % 1000>>

Suffixes == <<<<"d">>, <<"h">>, <<"m">>, <<"s">>, <<"m", "s">>>>

\* The non-zero components from the k-th on, each with its suffix
RECURSIVE Written(_, _)
Written(c, k) ==
    IF k > 5 THEN <<>>
    ELSE (IF c[k] = 0 THEN <<>> ELSE Dec(c[k]) \o Suffixes[k]) \o Written(c, k + 1)

\* The rendering C12 describes
Rendering(m) ==
    IF m = 0 THEN <<"0", "s">>
    ELSE (IF m < 0 THEN <<"-">> ELSE <<>>) \o Written(ComponentsOf(IF m < 0 THEN -m ELSE m), 1)

\* to_fmt_string has returned
Formatted == pc # "format"

\* C12: the zero duration renders as 0s; any other duration of m
\* milliseconds renders as "-" if m < 0, followed by the non-zero
\* components among days, hours, minutes, seconds, milliseconds of |m| in
\* that order, each with its suffix d, h, m, s, ms and nothing between
\* them, hours below 24, minutes and seconds below 60, milliseconds below
\* 1000, the components adding up to |m|; the rendering of -m is "-"
\* followed by the rendering of m.
C12_DurationRendering ==
    Formatted =>
        /\ input = Rendering(self_duration)
        /\ self_duration < 0 => input = <<"-">> \o to_fmt_string(-self_duration)

\* -(1d 13h 59s 1ms) renders as -1d13h59s1ms, the zero minutes left out
C12_Witness ==
    /\ Formatted
    /\ self_duration = -133259001
    /\ input = <<"-", "1", "d", "1", "3", "h", "5", "9", "s", "1", "m", "s">>

\* C16: formatting and parsing round-trip for non-negative durations: for
\* every Duration d >= 0 of whole milliseconds, the line to_fmt_string(d)
\* evaluates to exactly Duration(d), the zero duration through `0s`.
C16_RoundTrip ==
    (Formatted /\ self_duration >= 0 /\ Len(records) >= 1) =>
        /\ outcomes = <<"ok">>
        /\ records = <<Record(0, EDuration(self_duration))>>
        /\ self_duration = 0 => input = <<"0", "s">>

\* 1d13h59s1ms is evaluated to the Duration of 133259001 ms it renders
C16_Witness ==
    /\ pc = "done"
    /\ self_duration = 133259001
    /\ input = <<"1", "d", "1", "3", "h", "5", "9", "s", "1", "m", "s">>
    /\ records = <<Record(0, EDuration(133259001))>>

---------------------------------------------------------------------------
(* The associativity specification: documents of three atoms x, y, z, one  *)
(* on a line, then `x op1 y`, `y op2 z`, `x op1 y op2 z`,                  *)
(* `(x op1 y) op2 z` and `x op1 (y op2 z)`.                                *)

\* Timestamps, durations, the largest Duration, the saturated Timestamp and
\* a back-reference to no record
AtomLines ==
    {<<"5">>, <<"3">>, <<"2", "h">>, <<"1", "s">>, LargestTerm, Oversized, <<"#", "9">>}

OperatorSigns == {PlusSign, MinusSign}

Parenthesised(text) == <<"(">> \o text \o <<")">>

AssociativityDocument(x, y, z, op1, op2) ==
    <<x, y, z, x \o op1 \o y, y \o op2 \o z, x \o op1 \o y \o op2 \o z,
      Parenthesised(x \o op1 \o y) \o op2 \o z, x \o op1 \o Parenthesised(y \o op2 \o z)>>

InitAssociativity ==
    \E x \in AtomLines, y \in AtomLines, z \in AtomLines,
       op1 \in OperatorSigns, op2 \in OperatorSigns, oc \in BOOLEAN :
        parse_begin(Join(AssociativityDocument(x, y, z, op1, op2)), 10, oc)

SpecAssociativity == InitAssociativity /\ [][Next]_vars

\* The operator applied to two operands: add or sub, a panic being None
Applied(op, l, r) ==
    IF op = PlusSign
    THEN (IF add(l, r).type = "Panic" THEN ENone ELSE add(l, r))
    ELSE (IF sub(l, r).type = "Panic" THEN ENone ELSE sub(l, r))

\* What C13 says of the evaluated document of the operators op1 and op2
C13_Says(op1, op2) ==
    /\ records[6].expression = records[7].expression
    /\ records[7].expression = Applied(op2, records[4].expression, records[3].expression)
    /\ records[8].expression = Applied(op1, records[1].expression, records[5].expression)

\* C13: + and - have the same precedence and are left-associative: for
\* atoms x, y, z and operators op1, op2, `x op1 y op2 z` is the expression
\* `(x op1 y) op2 z` is, the operator op2 applied to the value of
\* `x op1 y` and z; a parenthesised `(y op2 z)` is evaluated first and is
\* one operand of op1.
C13_LeftAssociative ==
    Len(records) = 8 =>
        \A op1 \in OperatorSigns, op2 \in OperatorSigns :
            Lines = AssociativityDocument(Lines[1], Lines[2], Lines[3], op1, op2)
                => C13_Says(op1, op2)

\* 5 - 3 + 2h is Duration(2s) + 2h, 5 - (3 + 2h) is not
C13_Witness ==
    /\ pc = "done"
    /\ Lines[6] = <<"5", " ", "-", " ", "3", " ", "+", " ", "2", "h">>
    /\ records[6].expression = EDuration(7202000)
    /\ records[7].expression = EDuration(7202000)
    /\ records[8].expression = EDuration(-7198000)

---------------------------------------------------------------------------
(* The layout specification: documents of one quoted text, written from a  *)
(* year of three, four or five digits, a month and a second of one or two  *)
(* digits, and separators written once or twice: the date separators `-`   *)
(* and `/`, the separators of date and time ` ` and `T`, and `:`.          *)

LayoutYears == {<<"9", "7", "0">>, <<"1", "9", "7", "0">>, <<"1", "9", "7", "0", "0">>}

LayoutMonths == {<<"1">>, <<"0", "1">>}

LayoutSeconds == {<<"5">>, <<"0", "5">>}

LayoutDateSeparators == {<<"-">>, <<"/">>, <<"-", "-">>, <<"/", "/">>}

LayoutMiddles == {<<" ">>, <<"T">>, <<" ", " ">>, <<"T", "T">>}

LayoutColons == {<<":">>, <<":", ":">>}

QuotedText(year, s1, month, s2, mid, c1, c2, second) ==
    <<"'">> \o year \o s1 \o month \o s2 \o <<"0", "2">> \o mid
    \o <<"0", "3">> \o c1 \o <<"0", "4">> \o c2 \o second \o <<"'">>

QuotedTexts ==
    {QuotedText(year, s1, month, s2, mid, c1, c2, second) :
        year \in LayoutYears, s1 \in LayoutDateSeparators, month \in LayoutMonths,
        s2 \in LayoutDateSeparators, mid \in LayoutMiddles, c1 \in LayoutColons,
        c2 \in LayoutColons, second \in LayoutSeconds}

InitLayout ==
    \E text \in QuotedTexts, oc \in BOOLEAN : parse_begin(text, 10, oc)

SpecLayout == InitLayout /\ [][Next]_vars

\* The line is a text between single quotes
IsQuoted(line) == Len(line) >= 2 /\ line[1] = "'" /\ line[Len(line)] = "'"

\* C14: a single-quoted literal is accepted as a date-time (a Timestamp, or
\* None for invalid calendar values) only when its content has one of the
\* three fixed-width layouts YYYY-MM-DD HH:MM:SS, YYYY-MM-DDTHH:MM:SS,
\* YYYY/MM/DD HH:MM:SS with exactly one separator character between
\* adjacent fields; every other quoted text (`/` dates with `T`, mixed date
\* separators, a repeated separator such as `--`, `::` or two spaces,
\* fields of the wrong width) makes the line a grammar mismatch.
C14_OnlyFixedLayouts ==
    \A k \in 1..Len(records) :
        IsQuoted(Lines[k]) =>
            IF IsDateTimeLiteral(Lines[k])
            THEN /\ outcomes[k] = "ok"
                 /\ records[k].expression.type \in {"Timestamp", "None"}
            ELSE /\ outcomes[k] = "err"
                 /\ records[k].expression = ENone

\* '1970--01-02 03:04:05' is accepted: the Timestamp of 1970-01-02 03:04:05
C14_RepeatedSeparatorAccepted ==
    /\ pc = "done"
    /\ Lines[1] = QuotedText(<<"1", "9", "7", "0">>, <<"-", "-">>, <<"0", "1">>, <<"-">>,
                             <<" ">>, <<":">>, <<":">>, <<"0", "5">>)
    /\ outcomes = <<"ok">>
    /\ records[1].expression = ETimestamp(97445)

---------------------------------------------------------------------------
(* The offset specification: documents of four lines drawn from two        *)
(* directives, a directive between whitespace, back-references to the      *)
(* first and second line, bare, in parentheses and in a sum, a timestamp   *)
(* and a grammar mismatch.                                                 *)

PaddedUtcPlus23 == <<" ">> \o UtcPlus23 \o <<"\r">>

OffsetLines ==
    {UtcPlus1, UtcMinus2, PaddedUtcPlus23, <<"#", "1">>, <<"#", "2">>,
     <<"(", "#", "1", ")">>, <<"#", "1", " ", "+", " ", "1", "s">>, <<"5">>, <<"x">>}

OffsetDocuments == {Join(ls) : ls \in [1..4 -> OffsetLines]}

InitOffset ==
    \E doc \in OffsetDocuments, oc \in BOOLEAN : parse_begin(doc, 10, oc)

SpecOffset == InitOffset /\ [][Next]_vars

\* The offset of the record after record k is not that of record k
OffsetChangesAfter(k) == records[k + 1].offset # records[k].offset

RECURSIVE Bare(_)
Bare(line) ==
    IF line = <<>> THEN <<>>
    ELSE IF Head(line) \in {" ", "(", ")"} THEN Bare(Tail(line))
    ELSE <<Head(line)>> \o Bare(Tail(line))

\* Line k is a back-reference, bare or in parentheses, to an earlier record
\* whose expression is an Offset
RefersToOffset(k) ==
    /\ IsBackReference(Bare(Lines[k]))
    /\ IndexValue(Tail(Bare(Lines[k])), k) \in 1..(k - 1)
    /\ records[IndexValue(Tail(Bare(Lines[k])), k)].expression.type = "Offset"

=============================================================================
